---- MODULE Spec2Model ----
(***************************************************************************)
(* A model of micro-memoize's cache engine.                                *)
(*                                                                         *)
(*   src/src/index.ts   createMemoizedFunction: the store (keys, values),  *)
(*                      the memoized callable, the snapshot accessor       *)
(*   src/src/utils.js   isSameValueZero, areKeysEqual, getKeyIndex,        *)
(*                      orderByLru (the shift of one array),               *)
(*                      setPromiseHandler (the continuations of a pending  *)
(*                      result)                                            *)
(*                                                                         *)
(* index.ts calls a five-argument, capacity-aware orderByLru(cache, key,   *)
(* value, index, maxSize) of a utils module that is not among the sources. *)
(* It is modelled as `promote` (the name of section 4.4 of the             *)
(* specification): the shift of utils.js applied to keys and values in     *)
(* lock-step, followed by the truncation to maxSize that section 4.4       *)
(* states.                                                                 *)
(*                                                                         *)
(* Indices are JavaScript's (0-based, -1 for "not found"); TLA+ sequences  *)
(* are 1-based, so array[i] of the code is array[i + 1] here.              *)
(***************************************************************************)
EXTENDS Integers, Sequences, FiniteSets, TLC

VARIABLES
    keys,       \* cache.keys: the stored keys, most recently used first
    values,     \* cache.values: the stored values, parallel to keys
    maxSize,    \* options.maxSize, fixed at construction
    isPromise,  \* options.isPromise, fixed at construction
    canTransformKey,  \* whether options.transformKey is a function, fixed at
                \* construction
    promises,   \* the pending results created so far, by id: the key their
                \* continuation captured and their state
    calls,      \* history: the argument list of every call made so far
    hooks,      \* the hooks fired by the last step, in order
    notified,   \* history: the store the change hook was last fired with
    snapshot,   \* the snapshot an observer holds, once read, with the store
                \* as it was when it was read
    last        \* what the last step was and what it returned

vars ==
    <<keys, values, maxSize, isPromise, canTransformKey, promises, calls, hooks,
      notified, snapshot, last>>

----------------------------------------------------------------------------
(* Bounds *)

MaxCalls == 4

MaxPromises == 3

MaxSizeBound == 3

----------------------------------------------------------------------------
(* JavaScript values used as arguments.  "NaN" is the not-a-number value,  *)
(* "pz" and "nz" are +0 and -0, "x" is an ordinary primitive.              *)

\* The argument lists the callers use: no argument, one argument, and two
\* arguments.
ArgLists == {<<>>, <<"NaN">>, <<"pz">>, <<"nz">>, <<"x", "NaN">>}

\* a === b: NaN is not equal to itself, +0 and -0 are equal.
StrictEquals(a, b) ==
    IF a = "NaN" \/ b = "NaN" THEN FALSE
    ELSE IF a \in {"pz", "nz"} /\ b \in {"pz", "nz"} THEN TRUE
    ELSE a = b

\* || where the code has &&
isSameValueZeroLoose(object1, object2) ==
    \/ StrictEquals(object1, object2)
    \/ (~StrictEquals(object1, object1) \/ ~StrictEquals(object2, object2))

isSameValueZero(object1, object2) ==
    \/ StrictEquals(object1, object2)
    \/ (~StrictEquals(object1, object1) /\ ~StrictEquals(object2, object2))

\* A key that is no array (a primitive a key transform returned) is written
\* <<"primitive", v>>; every other sequence is a JavaScript array.
Primitive(v) == <<"primitive", v>>

\* Array.isArray(key)
IsArray(key) == ~(Len(key) = 2 /\ key[1] = "primitive")

\* key.length; -1 stands for undefined, the length of a key that is no
\* array: undefined !== undefined is false and index < undefined is false.
JsLength(key) == IF IsArray(key) THEN Len(key) ELSE -1

\* The loop of areKeysEqual from `index` on.
RECURSIVE areKeysEqualFrom(_, _, _)
areKeysEqualFrom(keys1, keys2, index) ==
    IF index >= JsLength(keys1) THEN TRUE
    ELSE IF ~isSameValueZero(keys1[index + 1], keys2[index + 1]) THEN FALSE
    ELSE areKeysEqualFrom(keys1, keys2, index + 1)

\* the loop compares nothing
areKeysEqualLengthOnly(keys1, keys2) == JsLength(keys1) = JsLength(keys2)

areKeysEqual(keys1, keys2) ==
    IF JsLength(keys1) # JsLength(keys2) THEN FALSE
    ELSE areKeysEqualFrom(keys1, keys2, 0)

\* The loop of getKeyIndex from `index` on.
RECURSIVE getKeyIndexFrom(_, _, _)
getKeyIndexFrom(allKeys, keysToMatch, index) ==
    IF index >= Len(allKeys) THEN -1
    ELSE IF areKeysEqual(allKeys[index + 1], keysToMatch) THEN index
    ELSE getKeyIndexFrom(allKeys, keysToMatch, index + 1)

getKeyIndexSkipFirst(allKeys, keysToMatch) ==
    getKeyIndexFrom(allKeys, keysToMatch, 1)

getKeyIndex(allKeys, keysToMatch) == getKeyIndexFrom(allKeys, keysToMatch, 0)

----------------------------------------------------------------------------
(* The LRU reorderer *)

Max(a, b) == IF a >= b THEN a ELSE b

orderByLruNoShift(array, value, startingIndex) ==
    [i \in 1..Max(Len(array), startingIndex + 1) |->
        IF i = 1 THEN value
        ELSE IF i = startingIndex + 1 THEN array[1]
        ELSE array[i]]

\* every element moves one slot to the tail, not only those before
\* startingIndex
orderByLruShiftAll(array, value, startingIndex) ==
    [i \in 1..Max(Len(array), startingIndex + 1) |->
        IF i = 1 THEN value ELSE array[i - 1]]

\* index = startingIndex; while (index--) array[index + 1] = array[index];
\* array[0] = value: the elements at 0..startingIndex-1 move one slot to the
\* tail (over the element at startingIndex, or growing the array by one when
\* startingIndex is its length) and value is put at the front.
orderByLru(array, value, startingIndex) ==
    [i \in 1..Max(Len(array), startingIndex + 1) |->
        IF i = 1 THEN value
        ELSE IF i <= startingIndex + 1 THEN array[i - 1]
        ELSE array[i]]

\* array.length = size, when the array is longer
Truncate(array, size) ==
    IF Len(array) > size THEN SubSeq(array, 1, size) ELSE array

\* orderByLru(cache, key, value, sourceIndex, maxSize) of index.ts: shift
\* both sequences, then evict from the tail down to maxSize.
promote(cache, key, value, sourceIndex, size) ==
    [keys   |-> Truncate(orderByLru(cache.keys, key, sourceIndex), size),
     values |-> Truncate(orderByLru(cache.values, value, sourceIndex), size)]

----------------------------------------------------------------------------
(* The wrapped function *)

Undefined == [kind |-> "undefined"]

\* The wrapped function throws on this argument list (and on no other).
fnThrows(args) == args = <<"x", "NaN">>

\* The wrapped function is deterministic and tells every two different
\* argument lists apart, +0 and -0 included (as x => 1 / x does).
fn(args) == [kind |-> "result", of |-> args]

\* The error the wrapped function throws on args.
fnError(args) == [kind |-> "error", of |-> args]

PromiseValue(id) == [kind |-> "promise", id |-> id]

----------------------------------------------------------------------------
(* The memoized callable *)

cache == [keys |-> keys, values |-> values]

\* keys.length ? getKeyIndex(keys, key) : -1
lookupFromTwo(key) == IF Len(keys) > 1 THEN getKeyIndex(keys, key) ELSE -1

lookup(key) == IF Len(keys) # 0 THEN getKeyIndex(keys, key) ELSE -1

hitCacheNoPromote(keyIndex) == cache

\* values[0] where the code has values[keyIndex]
hitCacheFrontValue(keyIndex) ==
    IF keyIndex # 0
    THEN promote(cache, keys[keyIndex + 1], values[1], keyIndex, maxSize)
    ELSE cache

\* keyIndex passed where the code passes maxSize
hitCacheSizeIsIndex(keyIndex) ==
    IF keyIndex # 0
    THEN promote(cache, keys[keyIndex + 1], values[keyIndex + 1], keyIndex,
                 keyIndex)
    ELSE cache

\* the branch keyIndex !== -1: promote unless the match is at the front
hitCache(keyIndex) ==
    IF keyIndex # 0
    THEN promote(cache, keys[keyIndex + 1], values[keyIndex + 1], keyIndex,
                 maxSize)
    ELSE cache

missCacheOverCapacity(newKey, newValue) ==
    promote(cache, newKey, newValue, Len(keys), maxSize + 1)

\* index 0 where the code has keys.length
missCacheAtFront(newKey, newValue) ==
    promote(cache, newKey, newValue, 0, maxSize)

\* the branch keyIndex === -1, after fn returned
missCache(newKey, newValue) ==
    promote(cache, newKey, newValue, Len(keys), maxSize)

\* The configured key transform, args => args[0]: it returns the first
\* argument, which is no array (undefined when there is no argument).
transformKey(args) ==
    Primitive(IF Len(args) = 0 THEN "undefined" ELSE args[1])

\* utils.js getTransformedKey: Array.isArray(key) ? key : [key]
getTransformedKey(args) ==
    LET key == transformKey(args) IN
    IF IsArray(key) THEN key ELSE <<key[2]>>

\* const key = canTransformKey ? transformKey(normalizedArgs) : normalizedArgs
\* and newKey = shouldCloneArguments ? key : slice(arguments, 0)
keyOf(args) == IF canTransformKey THEN transformKey(args) ELSE args

Last(op, args, keyIndex, invoked, threw, ret, p) ==
    [op |-> op, args |-> args, keyIndex |-> keyIndex, invoked |-> invoked,
     threw |-> threw, ret |-> ret, p |-> p,
     preKeys |-> keys, preValues |-> values]

\* the change hook fires on every hit
memoizedHitAlwaysChange(args, keyIndex) ==
    LET c == hitCache(keyIndex) IN
    /\ keys' = c.keys
    /\ values' = c.values
    /\ hooks' = <<"hit", "change">>
    /\ last' = Last("call", args, keyIndex, FALSE, FALSE, c.values[1], 0)
    /\ UNCHANGED promises

\* onCacheHit, then orderByLru and onCacheChange unless the match is at 0
memoizedHit(args, keyIndex) ==
    LET c == hitCache(keyIndex) IN
    /\ keys' = c.keys
    /\ values' = c.values
    /\ hooks' = IF keyIndex # 0 THEN <<"hit", "change">> ELSE <<"hit">>
    /\ last' = Last("call", args, keyIndex, FALSE, FALSE, c.values[1], 0)
    /\ UNCHANGED promises

\* the entry is inserted before the wrapped function is called
memoizedThrowAfterInsert(args) ==
    LET c == promote(cache, args, Undefined, Len(keys), maxSize) IN
    /\ keys' = c.keys
    /\ values' = c.values
    /\ hooks' = <<>>
    /\ last' = Last("call", args, -1, TRUE, TRUE, fnError(args), 0)
    /\ UNCHANGED promises

\* fn.apply(this, arguments) throws: nothing after it runs, the error leaves
\* the callable
memoizedThrow(args) ==
    /\ hooks' = <<>>
    /\ last' = Last("call", args, -1, TRUE, TRUE, fnError(args), 0)
    /\ UNCHANGED <<keys, values, promises>>

memoizedMiss(args) ==
    /\ isPromise => Len(promises) < MaxPromises
    /\ LET id == Len(promises) + 1
           newValue == IF isPromise THEN PromiseValue(id) ELSE fn(args)
           c == missCache(keyOf(args), newValue)
       IN
       /\ keys' = c.keys
       /\ values' = c.values
       /\ promises' = IF isPromise
                      THEN Append(promises,
                                  [key |-> c.keys[1], state |-> "pending"])
                      ELSE promises
       /\ hooks' = <<"add", "change">>
       /\ last' = Last("call", args, -1, TRUE, FALSE, c.values[1], 0)

FiresChange(fired) == \E i \in 1..Len(fired) : fired[i] = "change"

\* One call of the memoized callable with the argument list args.
memoized(args) ==
    /\ Len(calls) < MaxCalls
    /\ calls' = Append(calls, args)
    /\ UNCHANGED <<maxSize, isPromise, canTransformKey, snapshot>>
    /\ LET keyIndex == lookup(keyOf(args)) IN
       IF keyIndex # -1 THEN memoizedHit(args, keyIndex)
       ELSE IF fnThrows(args) THEN memoizedThrow(args)
       ELSE memoizedMiss(args)
    /\ notified' = IF FiresChange(hooks')
                   THEN [keys |-> keys', values |-> values']
                   ELSE notified

----------------------------------------------------------------------------
(* The continuations of a pending result.  A settlement and the run of its *)
(* continuation are one step: the store changes only when the continuation *)
(* runs.                                                                   *)

IsPendingId(p) == p \in 1..Len(promises) /\ promises[p].state = "pending"

\* The value the pending result p resolves with, and the error it fails
\* with.
resolution(p) == [kind |-> "result", of |-> promises[p].key]

rejection(p) == [kind |-> "error", of |-> promises[p].key]

\* the hooks fire only while the pending result is at the front of the store
ResolveAtFrontOnly(p) ==
    LET front == Len(values) >= 1 /\ values[1] = PromiseValue(p) IN
    /\ IsPendingId(p)
    /\ promises' = [promises EXCEPT ![p].state = "fulfilled"]
    /\ hooks' = IF front THEN <<"hit", "change">> ELSE <<>>
    /\ last' = Last("resolve", <<>>, -1, FALSE, FALSE, resolution(p), p)
    /\ notified' = IF front THEN cache ELSE notified
    /\ UNCHANGED <<keys, values, maxSize, isPromise, canTransformKey, calls,
                 snapshot>>

\* .then(value => { onCacheHit(...); onCacheChange(...); return value; })
Resolve(p) ==
    /\ IsPendingId(p)
    /\ promises' = [promises EXCEPT ![p].state = "fulfilled"]
    /\ hooks' = <<"hit", "change">>
    /\ last' = Last("resolve", <<>>, -1, FALSE, FALSE, resolution(p), p)
    /\ notified' = cache
    /\ UNCHANGED <<keys, values, maxSize, isPromise, canTransformKey, calls,
                 snapshot>>

\* array.splice(index, 1)
Splice(array, index) ==
    [i \in 1..(Len(array) - 1) |-> IF i <= index THEN array[i] ELSE array[i + 1]]

rollbackNone(key) == cache

\* the front entry removed whenever the key is found, whatever its index
rollbackFront(key) ==
    IF getKeyIndex(keys, key) # -1
    THEN [keys |-> Splice(keys, 0), values |-> Splice(values, 0)]
    ELSE cache

\* const keyIndex = getKeyIndex(cache.keys, key);
\* if (~keyIndex) { keys.splice(keyIndex, 1); values.splice(keyIndex, 1); }
rollback(key) ==
    LET keyIndex == getKeyIndex(keys, key) IN
    IF keyIndex # -1
    THEN [keys |-> Splice(keys, keyIndex), values |-> Splice(values, keyIndex)]
    ELSE cache

\* .catch(error => { ...rollback...; throw error; })
Reject(p) ==
    /\ IsPendingId(p)
    /\ LET c == rollback(promises[p].key) IN
       /\ keys' = c.keys
       /\ values' = c.values
       /\ last' = Last("reject", <<>>, getKeyIndex(keys, promises[p].key),
                       FALSE, TRUE, rejection(p), p)
    /\ promises' = [promises EXCEPT ![p].state = "failed"]
    /\ hooks' = <<>>
    /\ UNCHANGED <<maxSize, isPromise, canTransformKey, calls, notified,
                 snapshot>>

----------------------------------------------------------------------------
(* The snapshot accessor.  An array held by an observer is either a copy   *)
(* (its elements are its own) or one of the live arrays of the cache (its  *)
(* elements are those of the cache at the time it is read).                *)

Copy(array) == [ref |-> "copy", elems |-> array]

Live(name) == [ref |-> name, elems |-> <<>>]

\* slice(array, 0): a new array with the elements of array
slice(array) == Copy(array)

\* The elements an observer finds in an array it holds.
ReadArray(array) ==
    IF array.ref = "keys" THEN keys
    ELSE IF array.ref = "values" THEN values
    ELSE array.elems

\* the live arrays are handed out
cacheSnapshotLive ==
    [keys |-> Live("keys"), size |-> Len(keys), values |-> Live("values")]

\* get() { return { keys: slice(cache.keys, 0), size: cache.size,
\*                  values: slice(cache.values, 0) }; }
cacheSnapshot ==
    [keys |-> slice(keys), size |-> Len(keys), values |-> slice(values)]

\* What an observer finds in a snapshot it holds.
ReadSnapshot(s) ==
    [keys |-> ReadArray(s.keys), size |-> s.size, values |-> ReadArray(s.values)]

\* An observer reads memoized.cacheSnapshot once, after the first call, and
\* keeps what it read.
TakeSnapshot ==
    /\ ~snapshot.taken
    /\ Len(calls) = 1
    /\ snapshot' = [taken |-> TRUE, value |-> cacheSnapshot,
                    at |-> [keys |-> keys, size |-> Len(keys),
                            values |-> values]]
    /\ UNCHANGED <<keys, values, maxSize, isPromise, canTransformKey, promises,
                   calls, hooks, notified, last>>

----------------------------------------------------------------------------
(* The specification *)

\* maxSize = 1 in the destructuring of the options
DefaultMaxSize == 1

Configured(transform) ==
    /\ canTransformKey = transform
    /\ keys = <<>>
    /\ values = <<>>
    /\ maxSize \in 1..MaxSizeBound
    /\ isPromise \in BOOLEAN
    /\ promises = <<>>
    /\ calls = <<>>
    /\ hooks = <<>>
    /\ notified = [keys |-> <<>>, values |-> <<>>]
    /\ snapshot = [taken |-> FALSE]
    /\ last = [op |-> "init", args |-> <<>>, keyIndex |-> -1,
               invoked |-> FALSE, threw |-> FALSE, ret |-> Undefined, p |-> 0,
               preKeys |-> <<>>, preValues |-> <<>>]

\* No key transform is configured.
Init == Configured(FALSE)

\* The key transform args => args[0] is configured.
InitTransform == Configured(TRUE)

Call == \E args \in ArgLists : memoized(args)

Resolved == \E p \in 1..MaxPromises : Resolve(p)

Rejected == \E p \in 1..MaxPromises : Reject(p)

Next == Call \/ Resolved \/ Rejected

Spec == Init /\ [][Next]_vars

SpecTransform == InitTransform /\ [][Next]_vars

\* A cache of the default maxSize, read by an observer.
InitSnapshot == Init /\ maxSize = DefaultMaxSize

NextSnapshot == Next \/ TakeSnapshot

SpecSnapshot == InitSnapshot /\ [][NextSnapshot]_vars

----------------------------------------------------------------------------
(* Helpers of the properties *)

Indices(seq) == 1..Len(seq)

IsCall == last.op = "call"

ReturnedCall == IsCall /\ ~last.threw

IsHit == ReturnedCall /\ last.keyIndex # -1

IsMiss == ReturnedCall /\ last.keyIndex = -1

NoneFailed == \A p \in Indices(promises) : promises[p].state # "failed"

\* The position in the history of the last of the first n calls whose
\* argument list matches key, 0 when there is none.
LastUse(key, n) ==
    LET uses == {i \in 1..n : areKeysEqual(calls[i], key)} IN
    IF uses = {} THEN 0 ELSE CHOOSE i \in uses : \A j \in uses : j <= i

HasSignedZero(args) == \E i \in Indices(args) : args[i] \in {"pz", "nz"}

\* Argument lists the wrapped function returns on.
Cacheable == {args \in ArgLists : ~fnThrows(args)}

----------------------------------------------------------------------------
(* C1: in every state between steps (calls, hits and misses, and           *)
(* settlements of pending results, in any order) the store holds at most   *)
(* maxSize entries, for every maxSize >= 1.                                *)
C1_SizeWithinMaxSize == maxSize >= 1 /\ Len(keys) <= maxSize /\ Len(values) <= maxSize

\* a miss on a store that was full, with room for more than one entry
C1_Witness ==
    /\ IsMiss
    /\ maxSize > 1
    /\ Len(last.preKeys) = maxSize
    /\ Len(keys) = maxSize

(* C2, as stated: in synchronous mode every call that returns, returns the *)
(* value a direct call of the wrapped function on the same arguments       *)
(* returns.                                                                *)
C2_ReturnsDirectCallValue ==
    (~isPromise /\ ReturnedCall) => last.ret = fn(last.args)

(* C2, amended: in synchronous mode every call that returns, returns       *)
(* values[0], which is the value the wrapped function returned on the      *)
(* stored argument list keys[0], and keys[0] matches the arguments of the  *)
(* call under the key matcher; it is the value of a direct call on the     *)
(* arguments of the call whenever these hold no signed zero.               *)
C2_ReturnsValueOfMatchingKey ==
    (~isPromise /\ ReturnedCall) =>
        /\ Len(keys) >= 1
        /\ last.ret = values[1]
        /\ areKeysEqual(keys[1], last.args)
        /\ last.ret = fn(keys[1])
        /\ ~HasSignedZero(last.args) => last.ret = fn(last.args)

\* a hit behind the front of the store, on an argument list without zero
C2_Witness ==
    /\ ~isPromise
    /\ IsHit
    /\ last.keyIndex >= 1
    /\ ~HasSignedZero(last.args)
    /\ last.ret = fn(last.args)

(* C3: when two consecutive steps are calls whose argument lists match     *)
(* under the key matcher and the first call returned, the second call does *)
(* not invoke the wrapped function, returns the value the first returned   *)
(* and fires the hit hook and not the add hook.                            *)
C3_SecondCallIsHit ==
    [][(/\ ReturnedCall
        /\ last'.op = "call"
        /\ areKeysEqual(last.args, last'.args))
       => (/\ ~last'.invoked
           /\ ~last'.threw
           /\ last'.ret = last.ret
           /\ \E i \in Indices(hooks') : hooks'[i] = "hit"
           /\ \A i \in Indices(hooks') : hooks'[i] # "add")]_vars

\* the second of two consecutive matching calls, after a first that invoked
\* the wrapped function: -0 after +0
C3_Witness ==
    /\ ~isPromise
    /\ Len(calls) = 2
    /\ calls = <<(<<"pz">>), (<<"nz">>)>>
    /\ IsHit
    /\ ~last.invoked
    /\ hooks = <<"hit">>

(* C4: after every call that returns, by a match at any index or by an     *)
(* insertion, the entry of the call's key is at index 0 of keys and of     *)
(* values: keys[0] matches the call's key and values[0] is the value       *)
(* returned; after a match at index i they are the key and the value that  *)
(* were at index i.                                                        *)
C4_EntryAtFront ==
    ReturnedCall =>
        /\ Len(keys) >= 1 /\ Len(values) >= 1
        /\ areKeysEqual(keys[1], last.args)
        /\ values[1] = last.ret
        /\ IsHit => /\ keys[1] = last.preKeys[last.keyIndex + 1]
                    /\ values[1] = last.preValues[last.keyIndex + 1]
        /\ IsMiss => keys[1] = last.args

\* a match at the last index of a store of three entries
C4_Witness == IsHit /\ last.keyIndex = 2 /\ Len(keys) = 3

(* C5: the store is ordered strictly by recency of use, most recent first: *)
(* of two entries, the one whose key was called (looked up or inserted)    *)
(* later in the history has the smaller index.  With maxSize = 2 and no    *)
(* failed pending result, calls with pairwise non-matching keys A, B, A, C *)
(* give the stores [A], [B, A], [A, B], [C, A].                            *)
C5_Scenario(A, B, C) ==
    /\ calls = <<A>> => keys = <<A>>
    /\ calls = <<A, B>> => keys = <<B, A>>
    /\ calls = <<A, B, A>> => keys = <<A, B>>
    /\ calls = <<A, B, A, C>> => keys = <<C, A>>

C5_OrderedByRecency ==
    /\ \A i, j \in Indices(keys) :
          i < j => LastUse(keys[i], Len(calls)) > LastUse(keys[j], Len(calls))
    /\ (maxSize = 2 /\ NoneFailed) =>
          \A A, B, C \in Cacheable :
              (/\ ~areKeysEqual(A, B)
               /\ ~areKeysEqual(A, C)
               /\ ~areKeysEqual(B, C)) => C5_Scenario(A, B, C)

\* the end of the scenario A, B, A, C
C5_Witness ==
    /\ maxSize = 2
    /\ calls = <<(<<"pz">>), (<<"NaN">>), (<<"pz">>), (<<>>)>>
    /\ keys = <<(<<>>), (<<"pz">>)>>
    /\ NoneFailed

(* C6: a miss that inserts into a store holding maxSize entries removes    *)
(* the entry at the tail, which is the entry least recently called, and    *)
(* keeps the others in order behind the new entry; a miss on a store       *)
(* holding fewer than maxSize entries removes nothing; the new entry is    *)
(* always kept.                                                            *)
C6_EvictsTail ==
    IsMiss =>
        LET n == Len(last.preKeys)
            before == Len(calls) - 1
        IN
        /\ keys[1] = last.args /\ values[1] = last.ret
        /\ n < maxSize =>
              /\ keys = <<last.args>> \o last.preKeys
              /\ values = <<last.ret>> \o last.preValues
        /\ n = maxSize =>
              /\ keys = <<last.args>> \o SubSeq(last.preKeys, 1, n - 1)
              /\ values = <<last.ret>> \o SubSeq(last.preValues, 1, n - 1)
              /\ \A i \in 1..(n - 1) :
                    LastUse(last.preKeys[i], before)
                        > LastUse(last.preKeys[n], before)

\* a miss on a full store of two entries whose front was promoted by a hit
\* over the entry inserted after it: that entry, now the tail, is evicted
C6_Witness ==
    /\ IsMiss
    /\ maxSize = 2
    /\ Len(last.preKeys) = 2
    /\ Len(calls) = 4
    /\ LastUse(last.preKeys[1], 3) = 3
    /\ LastUse(last.preKeys[2], 3) = 2
    /\ ~(last.preKeys[2] \in {keys[i] : i \in Indices(keys)})

(* C7: once a pending result has failed and its failure continuation has   *)
(* run, no entry of the store holds it; right after the continuation no    *)
(* stored key matches its key, and a call with a matching key that follows *)
(* is a miss that invokes the wrapped function and does not return the     *)
(* failed result.                                                          *)
C7_NoFailedEntry ==
    /\ \A p \in Indices(promises) :
          promises[p].state = "failed" =>
              \A i \in Indices(values) : values[i] # PromiseValue(p)
    /\ last.op = "reject" => getKeyIndex(keys, promises[last.p].key) = -1

C7_FailedResultNotServed ==
    /\ []C7_NoFailedEntry
    /\ [][(/\ last.op = "reject"
           /\ last'.op = "call"
           /\ areKeysEqual(promises[last.p].key, last'.args))
          => (/\ last'.keyIndex = -1
              /\ last'.invoked
              /\ last'.ret # PromiseValue(last.p))]_vars

\* a call that invokes the wrapped function again on the key of a failed
\* result whose entry the rollback removed
C7_Witness ==
    /\ isPromise
    /\ IsMiss
    /\ last.invoked
    /\ Len(calls) >= 2
    /\ \E p \in Indices(promises) :
          /\ promises[p].state = "failed"
          /\ areKeysEqual(promises[p].key, last.args)
          /\ LastUse(promises[p].key, Len(calls) - 1) > 0

(* C8: in every state no two stored keys match each other under the key    *)
(* matcher.                                                                *)
C8_NoDuplicateKeys ==
    \A i, j \in Indices(keys) : i # j => ~areKeysEqual(keys[i], keys[j])

\* a store of several entries, one of them a zero, after calls with +0
\* and with -0
C8_Witness ==
    /\ Len(keys) >= 2
    /\ \E i \in Indices(keys) : HasSignedZero(keys[i])
    /\ \E i, j \in Indices(calls) : calls[i] = <<"pz">> /\ calls[j] = <<"nz">>

(* C9: keys and values have the same length in every state, and the value  *)
(* at index i is the one stored for the key at index i: the result of the  *)
(* wrapped function on that key, or in asynchronous mode the pending       *)
(* result whose continuation captured that key.                            *)
C9_ParallelSequences ==
    /\ Len(keys) = Len(values)
    /\ \A i \in Indices(keys) :
          IF isPromise
          THEN /\ values[i].kind = "promise"
               /\ values[i].id \in Indices(promises)
               /\ promises[values[i].id].key = keys[i]
          ELSE values[i] = fn(keys[i])

\* a rollback that removed an entry from the middle of the store
C9_Witness ==
    /\ last.op = "reject"
    /\ last.keyIndex = 1
    /\ Len(last.preKeys) = 3
    /\ Len(keys) = 2

(* C10: when the wrapped function throws during a miss, nothing is         *)
(* inserted: keys and values are as before the call, no hook fires, and    *)
(* the call ends with the error the wrapped function threw.                *)
C10_ThrowLeavesStore ==
    (IsCall /\ last.threw) =>
        /\ keys = last.preKeys
        /\ values = last.preValues
        /\ hooks = <<>>
        /\ last.invoked
        /\ last.ret = fnError(last.args)

\* the wrapped function threw on a call made with entries in the store
C10_Witness == IsCall /\ last.threw /\ Len(keys) >= 2
(* C11: the hooks a call fires, in order, are add then change on a miss,  *)
(* hit then change on a match at an index greater than 0, hit alone on a   *)
(* match at index 0, and none when the wrapped function throws.            *)
C11_HookOrder ==
    IsCall =>
        /\ IsMiss => hooks = <<"add", "change">>
        /\ (IsHit /\ last.keyIndex > 0) => hooks = <<"hit", "change">>
        /\ (IsHit /\ last.keyIndex = 0) => hooks = <<"hit">>
        /\ last.threw => hooks = <<>>

\* a match at index 0 of a store of several entries
C11_Witness == IsHit /\ last.keyIndex = 0 /\ Len(keys) >= 2 /\ hooks = <<"hit">>
(* C12, as stated: whenever the change hook fires, from a call or from    *)
(* the continuation of a resolved pending result, the order or the         *)
(* membership of the store has changed since the change hook last fired    *)
(* (since construction, for its first firing).                             *)
C12_ChangeOnlyAfterChange ==
    [][FiresChange(hooks') => [keys |-> keys', values |-> values'] # notified]_vars

(* C12, amended: the change hook fired by a call fires only when that call *)
(* changed the order or the membership of the store; the continuation of a *)
(* resolved pending result fires the change hook although it leaves the    *)
(* store as it was, and as the change hook last saw it when nothing        *)
(* happened in between.                                                    *)
C12_ChangeFiredByCall ==
    /\ (IsCall /\ FiresChange(hooks)) =>
          /\ cache # [keys |-> last.preKeys, values |-> last.preValues]
    /\ last.op = "resolve" =>
          /\ FiresChange(hooks)
          /\ keys = last.preKeys /\ values = last.preValues
          /\ notified = cache

\* the continuation of the pending result at the front of the store fired
\* the change hook with the store the insertion had fired it with
C12_Witness ==
    /\ last.op = "resolve"
    /\ FiresChange(hooks)
    /\ Len(values) >= 1
    /\ values[1] = PromiseValue(last.p)
    /\ Len(calls) = 1
(* C13: in asynchronous mode every pending result that resolves fires the *)
(* hit hook and then the change hook when it resolves, with the store as   *)
(* it is then, wherever its entry is by then (at the front, behind other   *)
(* entries, or evicted); the continuation leaves keys and values unchanged *)
(* and returns the resolved value unchanged.                               *)
C13_ResolveFiresHitChange ==
    last.op = "resolve" =>
        /\ isPromise
        /\ hooks = <<"hit", "change">>
        /\ notified = cache
        /\ keys = last.preKeys
        /\ values = last.preValues
        /\ ~last.threw
        /\ last.ret = resolution(last.p)

\* a pending result resolves after its entry was evicted by later calls
C13_Witness ==
    /\ last.op = "resolve"
    /\ Len(keys) >= 1
    /\ \A i \in Indices(values) : values[i] # PromiseValue(last.p)
    /\ NoneFailed
(* C14: with a key transform that returns a value that is no sequence,    *)
(* the key looked up and stored is the one-element sequence holding that   *)
(* value, so that a call matches a stored entry only when the transformed  *)
(* value of the call and the transformed value the entry was stored for    *)
(* are equal under the equality strategy.                                  *)
C14_TransformedKeyIsWrapped ==
    (canTransformKey /\ IsHit) =>
        LET stored == last.preKeys[last.keyIndex + 1] IN
        isSameValueZero(stored[Len(stored)], getTransformedKey(last.args)[1])
(* C15: in element-wise mode a stored key matches the key of a call if    *)
(* and only if the two have the same length and the equality strategy     *)
(* holds at every index, and a call is a hit exactly when some stored key  *)
(* matches in that sense.  Two empty keys match: the store never holds two *)
(* empty keys, a call without arguments is a hit whenever an empty key is  *)
(* stored, and calls without arguments alone (none failing) invoke the     *)
(* wrapped function once and fill one entry.                               *)
SameLengthAndEqualAtEveryIndex(keys1, keys2) ==
    /\ Len(keys1) = Len(keys2)
    /\ \A i \in 1..Len(keys1) : isSameValueZero(keys1[i], keys2[i])

OnlyZeroArgumentCalls ==
    Len(calls) >= 1 /\ \A i \in Indices(calls) : calls[i] = <<>>

C15_ElementWiseMatch ==
    /\ IsCall =>
          /\ \A i \in Indices(last.preKeys) :
                areKeysEqual(last.preKeys[i], last.args)
                    <=> SameLengthAndEqualAtEveryIndex(last.preKeys[i], last.args)
          /\ last.keyIndex # -1 <=>
                \E i \in Indices(last.preKeys) :
                    SameLengthAndEqualAtEveryIndex(last.preKeys[i], last.args)
          /\ (last.args = <<>> /\ \E i \in Indices(last.preKeys) :
                                     last.preKeys[i] = <<>>)
                => (IsHit /\ ~last.invoked)
    /\ Cardinality({i \in Indices(keys) : keys[i] = <<>>}) <= 1
    /\ (OnlyZeroArgumentCalls /\ NoneFailed) =>
          /\ keys = <<(<<>>)>>
          /\ isPromise => Len(promises) = 1
          /\ (IsCall /\ Len(calls) >= 2) => ~last.invoked

\* the third of three calls without arguments
C15_Witness ==
    /\ Len(calls) = 3
    /\ OnlyZeroArgumentCalls
    /\ IsHit
    /\ keys = <<(<<>>)>>
(* C16: an entry leaves the store only in a step that is a miss on a      *)
(* store holding maxSize entries (the entry that leaves is the tail) or    *)
(* the rollback run by the failure continuation of a pending result (one   *)
(* entry leaves); a hit, the resolution of a pending result and a miss on  *)
(* a store below capacity remove nothing.                                  *)
Entries(ks, vs) == {<<ks[i], vs[i]>> : i \in Indices(ks)}

Removed == Entries(last.preKeys, last.preValues) \ Entries(keys, values)

C16_EntriesLeaveByEvictionOrRollback ==
    /\ Removed # {} =>
          \/ /\ IsMiss
             /\ Len(last.preKeys) = maxSize
             /\ Removed = {<<last.preKeys[maxSize], last.preValues[maxSize]>>}
          \/ /\ last.op = "reject"
             /\ last.keyIndex # -1
             /\ Removed = {<<last.preKeys[last.keyIndex + 1],
                             last.preValues[last.keyIndex + 1]>>}
    /\ (IsHit \/ last.op = "resolve" \/ (IsCall /\ last.threw)) => Removed = {}
    /\ (IsMiss /\ Len(last.preKeys) < maxSize) => Removed = {}

\* a hit behind the front of a full store removes nothing
C16_Witness ==
    /\ IsHit
    /\ last.keyIndex >= 1
    /\ Len(last.preKeys) = maxSize
    /\ Removed = {}
    /\ Len(keys) = maxSize

(* C17: the snapshot read in any state holds the current keys in order,   *)
(* the current values in order and the number of keys as size; read right  *)
(* after the first insertion into a new cache with maxSize 1 it is         *)
(* {keys: [key], values: [value], size: 1}; a snapshot held by an observer *)
(* stays as it was read whatever calls and settlements follow.             *)
C17_SnapshotIsACopy ==
    /\ ReadSnapshot(cacheSnapshot)
          = [keys |-> keys, size |-> Len(keys), values |-> values]
    /\ cacheSnapshot.size = Len(values)
    /\ (maxSize = 1 /\ Len(calls) = 1 /\ IsMiss) =>
          ReadSnapshot(cacheSnapshot)
              = [keys |-> <<last.args>>, size |-> 1, values |-> <<last.ret>>]
    /\ snapshot.taken => ReadSnapshot(snapshot.value) = snapshot.at

\* a snapshot read after the first insertion, and a store that has changed
\* since
C17_Witness ==
    /\ snapshot.taken
    /\ snapshot.at.size = 1
    /\ snapshot.at.keys # keys
    /\ Len(keys) = 1
    /\ maxSize = 1

(* C18: when a pending result fails, the rollback removes at most one      *)
(* entry, and only the entry whose stored value is that failed pending     *)
(* result; an entry inserted later under a matching key, holding another   *)
(* pending result, stays.                                                  *)
C18_RollbackRemovesOnlyFailedEntry ==
    last.op = "reject" =>
        /\ Cardinality(Removed) <= 1
        /\ \A entry \in Removed : entry[2] = PromiseValue(last.p)

(* C19: a hit changes only the position of the matched entry: a match at   *)
(* index 0 leaves keys and values as they were; a match at index i > 0     *)
(* puts that entry at index 0, moves the entries formerly at 0..i-1 one    *)
(* slot to the tail in their order, leaves the entries after i where they  *)
(* were, and keeps the size and the set of (key, value) pairs.             *)
C19_HitMovesOnlyMatch ==
    IsHit =>
        LET i == last.keyIndex
            preKeys == last.preKeys
            preValues == last.preValues
        IN  /\ Len(keys) = Len(preKeys)
            /\ Len(values) = Len(preValues)
            /\ Entries(keys, values) = Entries(preKeys, preValues)
            /\ i = 0 => (keys = preKeys /\ values = preValues)
            /\ i > 0 =>
                  /\ keys[1] = preKeys[i + 1]
                  /\ values[1] = preValues[i + 1]
                  /\ \A j \in 1..i :
                        keys[j + 1] = preKeys[j] /\ values[j + 1] = preValues[j]
                  /\ \A j \in (i + 2)..Len(preKeys) :
                        keys[j] = preKeys[j] /\ values[j] = preValues[j]

\* a hit in the middle of a store of three entries: one entry moves to the
\* tail side, one stays behind the match
C19_Witness ==
    /\ IsHit
    /\ last.keyIndex = 1
    /\ Len(last.preKeys) = 3
    /\ keys[1] = last.preKeys[2]
    /\ keys[2] = last.preKeys[1]
    /\ keys[3] = last.preKeys[3]

(* C20: the failure continuation of a pending result re-raises the         *)
(* original failure; when no stored key matches the key of the failed      *)
(* entry any more it leaves keys and values as they were, and when the key *)
(* is found at index i the entry at i is gone, the other entries keep      *)
(* their relative order and the size decreases by exactly one.             *)
C20_FailureContinuation ==
    last.op = "reject" =>
        LET i == last.keyIndex
            preKeys == last.preKeys
            preValues == last.preValues
        IN  /\ last.threw
            /\ last.ret = rejection(last.p)
            /\ i = getKeyIndex(preKeys, promises[last.p].key)
            /\ i = -1 => (keys = preKeys /\ values = preValues)
            /\ i # -1 =>
                  /\ Len(keys) = Len(preKeys) - 1
                  /\ Len(values) = Len(preValues) - 1
                  /\ \A j \in 1..i :
                        keys[j] = preKeys[j] /\ values[j] = preValues[j]
                  /\ \A j \in (i + 1)..Len(keys) :
                        keys[j] = preKeys[j + 1] /\ values[j] = preValues[j + 1]

\* a failure found in the middle of the store, and a failure of an evicted
\* entry with other entries in the store: both happen
C20_WitnessFound ==
    /\ last.op = "reject"
    /\ last.keyIndex = 1
    /\ Len(last.preKeys) = 3
    /\ Len(keys) = 2

C20_WitnessEvicted ==
    /\ last.op = "reject"
    /\ last.keyIndex = -1
    /\ keys # <<>>
    /\ keys = last.preKeys
    /\ last.threw

====
